---- MODULE Spec2Model ----
(***************************************************************************)
(* Model of src/app.py: a Streamlit script that, on every script execution *)
(* (main), renders the sidebar and the uploader, optionally runs the batch *)
(* pipeline process_images over st.session_state.uploaded_images (describe *)
(* each image, then synthesize new images from the description), shows the *)
(* stored results (display_results) and removes the temporary files        *)
(* (cleanup_temp_files).                                                   *)
(*                                                                         *)
(* Texts are sequences of one-character strings.  The ideographic full     *)
(* stop U+3002 that line 256 splits on is written FullStop; the module     *)
(* is ASCII, so the Chinese literals of the source are transliterated.     *)
(***************************************************************************)
EXTENDS Integers, Sequences, FiniteSets, TLC

\* ---------------------------------------------------------------- bounds
MaxFiles == 2        \* files selected in the uploader at once
MaxIds == 3          \* uuid4 values drawn in one behaviour
MaxNumImages == 2    \* upper end of the "num_images" slider that is explored
MaxOutputs == 2      \* longest image list the synthesis model returns
MaxLen == 3          \* longest description text explored for prompt composing

\* ------------------------------------------------------------- constants
\* Python's None where a text or a list is expected, and where a choice is expected
None == << "None" >>
NoChoice == "None"
FullStop == "U+3002"
Dot == "."
Alphabet == {"A", Dot, FullStop}
FoxText == << "A", " ", "r", "e", "d", " ", "f", "o", "x", ".", " ",
              "I", "t", " ", "i", "s", " ", "j", "u", "m", "p", "i", "n", "g", "." >>
FoxClause == << "A", " ", "r", "e", "d", " ", "f", "o", "x" >>

SeqsUpTo(S, n) == UNION { [1..k -> S] : k \in 0..n }

\* descriptions explored by the prompt-composition specification
Texts == SeqsUpTo(Alphabet, MaxLen) \cup {FoxText}

\* fragment streams the description model returns in a batch run
FragmentStreams == { << >>, << << >> >>, << <<"A", FullStop>>, <<"A", Dot>> >> }
\* failure reasons an exception of a remote call carries (str(e))
Reasons == { <<"timeout">>, <<"auth">> }
Raise(reason) == [raised |-> TRUE, reason |-> reason]
Return(value) == [raised |-> FALSE, value |-> value]
DescribeOutcomes == { Raise(r) : r \in Reasons } \cup { Return(f) : f \in FragmentStreams }
\* image lists the synthesis model returns: the first k references, and the
\* longest list in the opposite order
ImageRefs == << "url1", "url2", "url3", "url4", "url5" >>
ImageLists == { [j \in 1..k |-> ImageRefs[j]] : k \in 0..MaxOutputs }
              \cup { [j \in 1..MaxOutputs |-> ImageRefs[MaxOutputs + 1 - j]] }
SynthesisOutcomes == { Raise(r) : r \in Reasons } \cup { Return(s) : s \in ImageLists }

AspectRatioOptions == {"1:1", "16:9"}
StickerStyleOptions == {"cute_cartoon", "animal_character"}
NumImagesOptions == 1..MaxNumImages
FileKinds == {"ok", "bad"}      \* "bad": Image.open / image.save raises on it
FileLists == SeqsUpTo(FileKinds, MaxFiles)

\* --------------------------------------------------------- pure helpers
\* "".join(text_output)
RECURSIVE Join(_)
Join(fragments) ==
    IF fragments = << >> THEN << >> ELSE Head(fragments) \o Join(Tail(fragments))

Contains(text, sep) == \E i \in 1..Len(text) : text[i] = sep

\* text.split(sep): the pieces between the occurrences of sep
RECURSIVE SplitFrom(_, _, _)
SplitFrom(text, sep, piece) ==
    IF text = << >> THEN << piece >>
    ELSE IF Head(text) = sep THEN << piece >> \o SplitFrom(Tail(text), sep, << >>)
    ELSE SplitFrom(Tail(text), sep, Append(piece, Head(text)))

Split(text, sep) == SplitFrom(text, sep, << >>)

KeyElementsDelimiter_dot == Dot
KeyElementsDelimiter == FullStop

\* line 256
KeyElements(text_analysis) ==
    IF Contains(text_analysis, KeyElementsDelimiter)
    THEN Split(text_analysis, KeyElementsDelimiter)[1]
    ELSE text_analysis

\* lines 259-266: the f-string template, its literal parts as single tokens
StickerEnhancement(key_elements, sticker_style) ==
    << "Create a LINE sticker featuring the exact same character/object as in the original image: " >>
    \o key_elements
    \o << "Style: ", IF sticker_style # NoChoice THEN sticker_style ELSE "cute cartoon" >>
    \o << "Must maintain the identity ... Digital art style suitable for LINE stickers" >>

\* lines 253-269
GenerationPrompt(text_analysis, p) ==
    IF p.line_sticker_mode
    THEN KeyElements(text_analysis) \o << " - " >>
         \o StickerEnhancement(KeyElements(text_analysis), p.sticker_style)
    ELSE text_analysis

\* lines 230-237: sticker_style_prompts.get(style, default)
StylePrompt(sticker_style) ==
    IF sticker_style \in {"cute_cartoon", "minimal_line", "expressive",
                          "animal_character", "food_personified"}
    THEN << "style_prompt", sticker_style >>
    ELSE << "style_prompt", "generic" >>

\* lines 228-238
EffectivePrompt(p) ==
    IF p.line_sticker_mode
    THEN << p.prompt, " ", StylePrompt(p.sticker_style) >>
    ELSE << p.prompt >>

SidebarAspectRatio_selected(line_sticker_mode, selected_ratio) == selected_ratio
\* lines 141-150
SidebarAspectRatio(line_sticker_mode, selected_ratio) ==
    IF line_sticker_mode THEN "1:1" ELSE selected_ratio

\* lines 99-170
render_sidebar(line_sticker_mode, selected_ratio, selected_style, num_images) ==
    [ prompt |-> IF line_sticker_mode THEN "sticker_default_prompt"
                                      ELSE "default_prompt",
      num_images |-> num_images,
      aspect_ratio |-> SidebarAspectRatio(line_sticker_mode, selected_ratio),
      line_sticker_mode |-> line_sticker_mode,
      sticker_style |-> IF line_sticker_mode THEN selected_style ELSE NoChoice ]

NoParams == [ prompt |-> NoChoice, num_images |-> 0, aspect_ratio |-> NoChoice,
              line_sticker_mode |-> FALSE, sticker_style |-> NoChoice ]

\* dictionaries of st.session_state
EmptyDict == [k \in {} |-> None]
Put(dict, key, value) ==
    [k \in DOMAIN dict \cup {key} |-> IF k = key THEN value ELSE dict[k]]

Ids(images) == { images[j].id : j \in DOMAIN images }

\* progress bar values (fractions)
Fraction(num, den) == [num |-> num, den |-> den]
NoBar == Fraction(0, 0)
BarFull(bar) == bar.den # 0 /\ bar.num = bar.den

TotalSteps_sum(n_images, num_images) == n_images + num_images
\* line 218
TotalSteps(n_images, num_images) == n_images * (1 + num_images)

SynthesisUnits_one(p) == 1
\* line 281
SynthesisUnits(p) == p.num_images

DescribeSucceeded_notNone(text_analysis) == text_analysis # None
\* line 247: "if text_analysis:"
DescribeSucceeded(text_analysis) == text_analysis # None /\ text_analysis # << >>

SynthesisSucceeded_notNone(generated) == generated # None
\* line 279: "if generated_images:"
SynthesisSucceeded(generated) == generated # None /\ generated # << >>

ClearedStore_kept(dict) == dict
\* lines 222-223
ClearedStore(dict) == EmptyDict

LoopContinues_stopOnFailure(i, images, failed) == i < Len(images) /\ ~failed
\* line 226: the for loop goes on to the next image whatever happened to this one
LoopContinues(i, images, failed) == i < Len(images)

\* lines 340-347
cleanup_temp_files(images) ==
    [j \in DOMAIN images |-> [images[j] EXCEPT !.path_exists = FALSE]]

\* lines 288-338: what is put on the page, one entry per image that has a description
display_results(images, analyses, generated) ==
    IF DOMAIN analyses = {} THEN << >>
    ELSE LET shown == SelectSeq(images, LAMBDA img : img.id \in DOMAIN analyses)
         IN [j \in DOMAIN shown |->
                [ id |-> shown[j].id,
                  analysis |-> analyses[shown[j].id],
                  images |-> IF shown[j].id \in DOMAIN generated
                             THEN generated[shown[j].id] ELSE None ]]

\* lines 183-199: the loop over uploaded_files, up to the first file that raises
FirstBad(files) ==
    IF \E j \in DOMAIN files : files[j] = "bad"
    THEN CHOOSE j \in DOMAIN files : files[j] = "bad" /\ \A k \in 1..(j-1) : files[k] = "ok"
    ELSE 0

UploadLoop(files, first_uuid) ==
    LET bad == FirstBad(files)
        kept == IF bad = 0 THEN Len(files) ELSE bad - 1
    IN [ images |-> [j \in 1..kept |-> [id |-> first_uuid + j - 1, path_exists |-> TRUE]],
         raised |-> bad # 0,
         uuids |-> IF bad = 0 THEN Len(files) ELSE bad ]

\* ------------------------------------------------------------------ state
VARIABLES
    uploaded_files,    \* the uploader widget: the files currently selected
    uploaded_images,   \* st.session_state.uploaded_images
    image_analyses,    \* st.session_state.image_analyses
    generated_images,  \* st.session_state.generated_images
    next_uuid,         \* the next value uuid.uuid4() yields
    pc,                \* position of the script: "idle", or inside process_images
    idx,               \* index in uploaded_images of the image being processed
    params,            \* the params of the run in progress or last started
    selected_ratio,    \* the aspect-ratio selection supplied with those params
    total_steps,       \* process_images: total_steps
    completed_steps,   \* process_images: completed_steps
    progress_bar,      \* the value last given to progress_bar.progress
    text_analysis,     \* process_images: text_analysis
    key_elements,      \* process_images: key_elements
    generation_prompt, \* process_images: generation_prompt
    calls,             \* the remote calls issued by the current script execution
    errors,            \* the st.error messages of the current script execution
    displayed,         \* what display_results put on the page
    last               \* how the latest script execution went

vars == << uploaded_files, uploaded_images, image_analyses, generated_images,
           next_uuid, pc, idx, params, selected_ratio, total_steps,
           completed_steps, progress_bar, text_analysis, key_elements,
           generation_prompt, calls, errors, displayed, last >>

\* lines 66-83 (init_session_state) and a page on which nothing ran yet
Init ==
    /\ uploaded_files = << >>
    /\ uploaded_images = << >>
    /\ image_analyses = EmptyDict
    /\ generated_images = EmptyDict
    /\ next_uuid = 1
    /\ pc = "idle"
    /\ idx = 0
    /\ params = NoParams
    /\ selected_ratio = NoChoice
    /\ total_steps = 0
    /\ completed_steps = 0
    /\ progress_bar = NoBar
    /\ text_analysis = None
    /\ key_elements = None
    /\ generation_prompt = None
    /\ calls = << >>
    /\ errors = << >>
    /\ displayed = << >>
    /\ last = "init"

\* lines 172-208: the images list after render_image_uploader. bad: the upload
\* loop raised. missing: st.image (line 208) is given a path that
\* cleanup_temp_files removed; whether that raises is the library's choice, so
\* the script may then either crash or go on.
render_image_uploader(files) ==
    LET up == IF files # << >> THEN UploadLoop(files, next_uuid)
              ELSE [images |-> uploaded_images, raised |-> FALSE, uuids |-> 0]
    IN [ images |-> up.images,
         bad |-> up.raised,
         missing |-> \E j \in DOMAIN up.images : ~up.images[j].path_exists,
         uuids |-> up.uuids ]

NoRunLocals ==
    /\ idx' = 0
    /\ params' = NoParams
    /\ selected_ratio' = NoChoice
    /\ total_steps' = 0
    /\ completed_steps' = 0
    /\ progress_bar' = NoBar
    /\ text_analysis' = None
    /\ key_elements' = None
    /\ generation_prompt' = None
    /\ calls' = << >>

\* main, lines 351-387: render_image_uploader raises; the handler of line 382
\* reports it and cleanup_temp_files runs
ScriptCrash(files) ==
    /\ pc = "idle"
    /\ next_uuid + Len(files) <= MaxIds + 1
    /\ LET up == render_image_uploader(files)
       IN /\ up.bad \/ up.missing
          /\ uploaded_files' = files
          /\ next_uuid' = next_uuid + up.uuids
          /\ uploaded_images' = cleanup_temp_files(up.images)
          /\ errors' = << [message |-> "app_error", reason |-> None] >>
          /\ displayed' = << >>
          /\ last' = "crashed"
    /\ NoRunLocals
    /\ UNCHANGED << image_analyses, generated_images, pc >>

\* main without the button pressed: render, display_results, cleanup_temp_files
Rerender(files) ==
    /\ pc = "idle"
    /\ next_uuid + Len(files) <= MaxIds + 1
    /\ LET up == render_image_uploader(files)
       IN /\ ~up.bad
          /\ uploaded_files' = files
          /\ next_uuid' = next_uuid + up.uuids
          /\ uploaded_images' = cleanup_temp_files(up.images)
          /\ displayed' = display_results(up.images, image_analyses, generated_images)
          /\ errors' = << >>
          /\ last' = "rerender"
    /\ NoRunLocals
    /\ UNCHANGED << image_analyses, generated_images, pc >>

\* main with the button pressed on an empty uploaded_images: lines 211-213
RunRejected(files) ==
    /\ pc = "idle"
    /\ next_uuid + Len(files) <= MaxIds + 1
    /\ LET up == render_image_uploader(files)
       IN /\ ~up.bad
          /\ up.images = << >>
          /\ uploaded_files' = files
          /\ next_uuid' = next_uuid + up.uuids
          /\ uploaded_images' = cleanup_temp_files(up.images)
          /\ displayed' = display_results(up.images, image_analyses, generated_images)
          /\ errors' = << >>
          /\ last' = "rejected"
    /\ NoRunLocals
    /\ UNCHANGED << image_analyses, generated_images, pc >>

\* main with the button pressed: lines 215-226, up to the first remote call
RunStart(files, line_sticker_mode, ratio, style, num_images) ==
    /\ pc = "idle"
    /\ next_uuid + Len(files) <= MaxIds + 1
    /\ LET up == render_image_uploader(files)
           p == render_sidebar(line_sticker_mode, ratio, style, num_images)
       IN /\ ~up.bad
          /\ up.images # << >>
          /\ uploaded_files' = files
          /\ next_uuid' = next_uuid + up.uuids
          /\ uploaded_images' = up.images
          /\ params' = p
          /\ selected_ratio' = ratio
          /\ total_steps' = TotalSteps(Len(up.images), p.num_images)
    /\ completed_steps' = 0
    /\ progress_bar' = Fraction(0, 1)
    /\ image_analyses' = ClearedStore(image_analyses)
    /\ generated_images' = ClearedStore(generated_images)
    /\ pc' = "describe"
    /\ idx' = 1
    /\ text_analysis' = None
    /\ key_elements' = None
    /\ generation_prompt' = None
    /\ calls' = << >>
    /\ errors' = << >>
    /\ displayed' = << >>
    /\ last' = "running"

\* the rest of the script once image idx is dealt with: the next image, or
\* lines 284-286, display_results and cleanup_temp_files
EndOfImage(failed, bar, analyses, generated) ==
    IF LoopContinues(idx, uploaded_images, failed)
    THEN /\ pc' = "describe"
         /\ idx' = idx + 1
         /\ progress_bar' = bar
         /\ UNCHANGED << uploaded_images, displayed, last >>
    ELSE /\ pc' = "idle"
         /\ idx' = 0
         /\ progress_bar' = Fraction(1, 1)
         /\ displayed' = display_results(uploaded_images, analyses, generated)
         /\ uploaded_images' = cleanup_temp_files(uploaded_images)
         /\ last' = "finished"

\* lines 28-44
generate_text_from_image(out) == IF out.raised THEN None ELSE Join(out.value)

\* lines 46-62
generate_image_from_text(out) == IF out.raised THEN None ELSE out.value

\* lines 227-250 for image idx, and what follows when the description failed
DescribeStep(out) ==
    /\ pc = "describe"
    /\ LET img == uploaded_images[idx]
           result == generate_text_from_image(out)
       IN /\ ~img.path_exists => out.raised
          /\ calls' = Append(calls, [ op |-> "describe", id |-> img.id,
                                      prompt |-> EffectivePrompt(params),
                                      raised |-> out.raised,
                                      reason |-> IF out.raised THEN out.reason ELSE None,
                                      result |-> result ])
          /\ errors' = IF out.raised
                       THEN Append(errors, [message |-> "text_failed", reason |-> out.reason])
                       ELSE errors
          /\ text_analysis' = result
          /\ IF DescribeSucceeded(result)
             THEN /\ image_analyses' = Put(image_analyses, img.id, result)
                  /\ completed_steps' = completed_steps + 1
                  /\ progress_bar' = Fraction(completed_steps + 1, total_steps)
                  /\ pc' = "synthesize"
                  /\ UNCHANGED << idx, uploaded_images, displayed, last >>
             ELSE /\ EndOfImage(TRUE, progress_bar, image_analyses, generated_images)
                  /\ UNCHANGED << image_analyses, completed_steps >>
    /\ UNCHANGED << uploaded_files, generated_images, next_uuid, params, selected_ratio,
                    total_steps, key_elements, generation_prompt >>

\* lines 253-269: the locals the prompt composition assigns
ComposeLocals ==
    /\ key_elements' = IF params.line_sticker_mode
                        THEN KeyElements(text_analysis) ELSE key_elements
    /\ generation_prompt' = GenerationPrompt(text_analysis, params)

\* lines 252-282 for image idx, and what follows
SynthesizeStep(out) ==
    /\ pc = "synthesize"
    /\ LET img == uploaded_images[idx]
           prompt == GenerationPrompt(text_analysis, params)
           result == generate_image_from_text(out)
           ok == SynthesisSucceeded(result)
           generated == IF ok THEN Put(generated_images, img.id, result)
                        ELSE generated_images
           completed == IF ok THEN completed_steps + SynthesisUnits(params)
                        ELSE completed_steps
       IN /\ ComposeLocals
          /\ calls' = Append(calls, [ op |-> "synthesize", id |-> img.id,
                                      prompt |-> prompt,
                                      num_outputs |-> params.num_images,
                                      aspect_ratio |-> params.aspect_ratio,
                                      raised |-> out.raised,
                                      reason |-> IF out.raised THEN out.reason ELSE None,
                                      result |-> result ])
          /\ errors' = IF out.raised
                       THEN Append(errors, [message |-> "image_failed", reason |-> out.reason])
                       ELSE errors
          /\ generated_images' = generated
          /\ completed_steps' = completed
          /\ EndOfImage(~ok,
                        IF ok THEN Fraction(completed, total_steps) ELSE progress_bar,
                        image_analyses, generated)
    /\ UNCHANGED << uploaded_files, image_analyses, next_uuid, params, selected_ratio,
                    total_steps, text_analysis >>

Describe == \E out \in DescribeOutcomes : DescribeStep(out)
Synthesize == \E out \in SynthesisOutcomes : SynthesizeStep(out)

Next ==
    \/ \E files \in FileLists :
          ScriptCrash(files)
    \/ \E files \in FileLists :
          Rerender(files)
    \/ \E files \in FileLists :
          RunRejected(files)
    \/ \E files \in FileLists, line_sticker_mode \in BOOLEAN,
          ratio \in AspectRatioOptions, num_images \in NumImagesOptions :
          \E style \in IF line_sticker_mode THEN StickerStyleOptions ELSE {NoChoice} :
             RunStart(files, line_sticker_mode, ratio, style, num_images)
    \/ Describe
    \/ Synthesize

Spec == Init /\ [][Next]_vars

\* every remote call returns or raises
FairSpec == Spec /\ WF_vars(Describe) /\ WF_vars(Synthesize)

\* ------------------------------------------- prompt composition on its own
\* process_images lines 253-269 applied to every description of Texts
PromptInit ==
    /\ uploaded_files = << >>
    /\ uploaded_images = << >>
    /\ image_analyses = EmptyDict
    /\ generated_images = EmptyDict
    /\ next_uuid = 1
    /\ pc = "compose"
    /\ idx = 0
    /\ \E line_sticker_mode \in BOOLEAN, ratio \in AspectRatioOptions,
          num_images \in NumImagesOptions,
          style \in StickerStyleOptions \cup {NoChoice} :
          /\ line_sticker_mode <=> style # NoChoice
          /\ params = render_sidebar(line_sticker_mode, ratio, style, num_images)
          /\ selected_ratio = ratio
    /\ total_steps = 0
    /\ completed_steps = 0
    /\ progress_bar = NoBar
    /\ text_analysis \in Texts
    /\ key_elements = None
    /\ generation_prompt = None
    /\ calls = << >>
    /\ errors = << >>
    /\ displayed = << >>
    /\ last = "init"

ComposePrompt ==
    /\ pc = "compose"
    /\ ComposeLocals
    /\ pc' = "composed"
    /\ UNCHANGED << uploaded_files, uploaded_images, image_analyses, generated_images,
                    next_uuid, idx, params, selected_ratio, total_steps, completed_steps,
                    progress_bar, text_analysis, calls, errors, displayed, last >>

PromptNext == ComposePrompt

PromptSpec == PromptInit /\ [][PromptNext]_vars

\* ---------------------------------------------------------------- claims
Failed(result) == result = None \/ result = << >>
IsPrefix(a, b) == Len(a) <= Len(b) /\ SubSeq(b, 1, Len(a)) = a
DescribeCallsOf(id) == { j \in DOMAIN calls : calls[j].op = "describe" /\ calls[j].id = id }
SynthesisCallsOf(id) == { j \in DOMAIN calls : calls[j].op = "synthesize" /\ calls[j].id = id }
DescriptionFailed(id) == \E j \in DescribeCallsOf(id) : Failed(calls[j].result)
SynthesisFailed(id) == \E j \in SynthesisCallsOf(id) : Failed(calls[j].result)
Completed(id) == id \in DOMAIN image_analyses /\ id \in DOMAIN generated_images
AllCompleted == \A id \in Ids(uploaded_images) : Completed(id)
KeysOfBatch ==
    /\ DOMAIN image_analyses \subseteq Ids(uploaded_images)
    /\ DOMAIN generated_images \subseteq Ids(uploaded_images)

\* C1: a synthesis call for an image is issued only after a description call
\* for the same image returned a non-empty text in the same run; an image
\* whose description call returned nothing or an empty text gets no synthesis
\* call and no entry in generated_images.
C1_SynthesisOnlyAfterDescription ==
    /\ \A j \in DOMAIN calls :
          calls[j].op = "synthesize" =>
             \E i \in 1..(j - 1) : /\ calls[i].op = "describe"
                                   /\ calls[i].id = calls[j].id
                                   /\ ~Failed(calls[i].result)
    /\ \A id \in Ids(uploaded_images) :
          DescriptionFailed(id) =>
             SynthesisCallsOf(id) = {} /\ id \notin DOMAIN generated_images

\* a run in which one description came back empty and another image was synthesized
C1_Witness ==
    /\ \E i \in DOMAIN calls :
          calls[i].op = "describe" /\ ~calls[i].raised /\ calls[i].result = << >>
    /\ \E j \in DOMAIN calls : calls[j].op = "synthesize"

AllDescribedInOrder ==
    LET described == SelectSeq(calls, LAMBDA c : c.op = "describe")
    IN /\ Len(described) = Len(uploaded_images)
       /\ \A j \in DOMAIN described : described[j].id = uploaded_images[j].id

\* what is recorded for an image is what its own two calls returned
RecordedFromOwnCalls(id) ==
    /\ id \in DOMAIN image_analyses <=>
          \E j \in DescribeCallsOf(id) : ~Failed(calls[j].result)
    /\ \A j \in DescribeCallsOf(id) :
          ~Failed(calls[j].result) => image_analyses[id] = calls[j].result
    /\ id \in DOMAIN generated_images <=>
          \E j \in SynthesisCallsOf(id) : ~Failed(calls[j].result)
    /\ \A j \in SynthesisCallsOf(id) :
          ~Failed(calls[j].result) => generated_images[id] = calls[j].result

\* C2: a run over a non-empty batch never aborts early: whatever fails, the
\* run ends with the description call attempted once for every image of the
\* batch, in input order, and with each image's recorded result being what
\* its own calls returned.
C2_NeverAbortsEarly ==
    (last = "running") ~>
        (/\ last = "finished"
         /\ AllDescribedInOrder
         /\ \A id \in Ids(uploaded_images) : RecordedFromOwnCalls(id))

\* a finished run whose first image failed and whose second image completed
C2_Witness ==
    /\ last = "finished"
    /\ Len(uploaded_images) >= 2
    /\ DescriptionFailed(uploaded_images[1].id)
    /\ Completed(uploaded_images[2].id)

\* C3 as stated: after the run the progress reported to the caller is
\* complete only if every image reached Completed.
C3_Original ==
    last = "finished" =>
        /\ BarFull(progress_bar) => AllCompleted
        /\ ~AllCompleted => ~BarFull(progress_bar)

\* C3 amended: after the run the unit counter completed_steps equals
\* total_steps only if every image reached Completed and is strictly less
\* otherwise; the progress bar itself is set to 1.0 in every case.
C3_CounterOnlyIfAllCompleted ==
    last = "finished" =>
        /\ completed_steps = total_steps => AllCompleted
        /\ ~AllCompleted => completed_steps < total_steps
        /\ progress_bar = Fraction(1, 1)

\* a finished run with a synthesis failure and one with none
C3_Witness ==
    /\ last = "finished"
    /\ Len(uploaded_images) >= 2
    /\ Completed(uploaded_images[1].id)
    /\ SynthesisFailed(uploaded_images[2].id)
    /\ completed_steps < total_steps

ExactlyOneDescriptionFailed(k) ==
    /\ DescriptionFailed(k)
    /\ \A id \in Ids(uploaded_images) \ {k} : ~DescriptionFailed(id) /\ ~SynthesisFailed(id)

\* C4: when the description call of exactly one image k fails and every other
\* call succeeds, the run ends with a description and an image list for each
\* other image, nothing for k, and completed_steps = (N-1)*(1+num_images) out of
\* total_steps = N*(1+num_images).
C4_OneDescriptionFailure ==
    last = "finished" =>
        \A k \in Ids(uploaded_images) :
            ExactlyOneDescriptionFailed(k) =>
                /\ \A id \in Ids(uploaded_images) \ {k} : Completed(id)
                /\ k \notin DOMAIN image_analyses
                /\ k \notin DOMAIN generated_images
                /\ completed_steps = (Len(uploaded_images) - 1) * (1 + params.num_images)
                /\ total_steps = Len(uploaded_images) * (1 + params.num_images)

\* a finished run of two images, two images per input, the second description failed
C4_Witness ==
    /\ last = "finished"
    /\ Len(uploaded_images) = 2
    /\ params.num_images = 2
    /\ ExactlyOneDescriptionFailed(uploaded_images[2].id)

\* the result store holds a failure reason for the image
ReasonRecorded(id) ==
    \/ id \in DOMAIN image_analyses /\ image_analyses[id] \in Reasons
    \/ id \in DOMAIN generated_images /\ generated_images[id] \in Reasons

\* C5 as stated: after the run each failed image has a failure reason in the
\* result, and a synthesis-failed image has its description but no images.
C5_Original ==
    last = "finished" =>
        \A id \in Ids(uploaded_images) :
            /\ DescriptionFailed(id) \/ SynthesisFailed(id) => ReasonRecorded(id)
            /\ SynthesisFailed(id) =>
                  id \in DOMAIN image_analyses /\ id \notin DOMAIN generated_images

RaisedReasons ==
    LET raised == SelectSeq(calls, LAMBDA c : c.raised)
    IN [j \in DOMAIN raised |-> raised[j].reason]

\* C5 amended: the result retains no failure reason; a raised failure is only
\* reported as an error message when it happens (an empty response reports
\* nothing); after the run an image whose description failed has neither a
\* description nor images, and an image whose synthesis failed has its
\* description but no images.
C5_FailureLeavesNoReason ==
    last = "finished" =>
        /\ \A id \in Ids(uploaded_images) :
              /\ ~ReasonRecorded(id)
              /\ DescriptionFailed(id) =>
                    id \notin DOMAIN image_analyses /\ id \notin DOMAIN generated_images
              /\ SynthesisFailed(id) =>
                    id \in DOMAIN image_analyses /\ id \notin DOMAIN generated_images
        /\ [j \in DOMAIN errors |-> errors[j].reason] = RaisedReasons

\* a finished run with a raised description failure and an empty synthesis result
C5_Witness ==
    /\ last = "finished"
    /\ \E i \in DOMAIN calls : calls[i].op = "describe" /\ calls[i].raised
    /\ \E j \in DOMAIN calls :
          calls[j].op = "synthesize" /\ ~calls[j].raised /\ calls[j].result = << >>

\* C6 as stated: whenever a run records synthesized images for an image, the
\* recorded sequence is the returned one and has exactly num_images elements.
C6_Original ==
    \A j \in DOMAIN calls :
        calls[j].op = "synthesize" /\ calls[j].id \in DOMAIN generated_images =>
            /\ generated_images[calls[j].id] = calls[j].result
            /\ Len(generated_images[calls[j].id]) = calls[j].num_outputs

\* C7 as stated: once a run is requested, every key of the stores is the id of
\* an image of the batch, also when the batch is empty and the run not started.
C7_Original ==
    last \in {"running", "finished", "rejected"} => KeysOfBatch

\* C7 amended: once a run is requested on a non-empty batch, every key of
\* image_analyses and generated_images is the id of an image of that batch;
\* a run requested on an empty batch is not started and leaves both stores
\* as they were.
C7_NoStaleEntriesOnceStarted ==
    [][ /\ last' \in {"running", "finished"} => KeysOfBatch'
        /\ last' = "rejected" =>
              image_analyses' = image_analyses /\ generated_images' = generated_images
      ]_vars

\* a finished run with results whose batch was uploaded after an earlier one
C7_Witness ==
    /\ last = "finished"
    /\ DOMAIN generated_images # {}
    /\ \A id \in Ids(uploaded_images) : id > Len(uploaded_images)

\* C8 as stated: the anchor is the text before the first "." (as in the
\* example), or the whole text; for FoxText it is "A red fox"; the prompt
\* starts with the anchor and " - ".
C8_Original ==
    pc = "composed" /\ params.line_sticker_mode =>
        /\ ~Contains(text_analysis, Dot) => key_elements = text_analysis
        /\ Contains(text_analysis, Dot) =>
              /\ ~Contains(key_elements, Dot)
              /\ IsPrefix(key_elements \o << Dot >>, text_analysis)
        /\ text_analysis = FoxText => key_elements = FoxClause
        /\ IsPrefix(key_elements \o << " - " >>, generation_prompt)

\* C8 amended: the anchor is the text before the first ideographic full stop
\* (U+3002), or the whole description when it has none; for "A red fox. It is
\* jumping." the anchor is the whole description; the prompt starts with the
\* anchor followed by " - ".
C8_AnchorBeforeIdeographicFullStop ==
    pc = "composed" /\ params.line_sticker_mode =>
        /\ ~Contains(text_analysis, FullStop) => key_elements = text_analysis
        /\ Contains(text_analysis, FullStop) =>
              /\ ~Contains(key_elements, FullStop)
              /\ IsPrefix(key_elements \o << FullStop >>, text_analysis)
        /\ text_analysis = FoxText => key_elements = FoxText
        /\ IsPrefix(key_elements \o << " - " >>, generation_prompt)

\* a composed sticker prompt for a description with a "." before a U+3002
C8_Witness ==
    /\ pc = "composed"
    /\ params.line_sticker_mode
    /\ text_analysis = << "A", Dot, FullStop >>
    /\ key_elements = << "A", Dot >>

\* C9: every synthesis call of a run in sticker mode is made with aspect
\* ratio "1:1", whatever aspect ratio was selected.
C9_StickerModeIsSquare ==
    params.line_sticker_mode =>
        \A j \in DOMAIN calls :
            calls[j].op = "synthesize" => calls[j].aspect_ratio = "1:1"

\* a synthesis call of a sticker-mode run with "16:9" selected
C9_Witness ==
    /\ params.line_sticker_mode
    /\ selected_ratio = "16:9"
    /\ \E j \in DOMAIN calls : calls[j].op = "synthesize"

\* C10 as stated: on a re-render after a finished run, with the same files
\* still uploaded, the keys of the stores are still ids of uploaded_images and
\* display_results shows what it showed.
C10_Original ==
    [][ (last = "finished" /\ last' = "rerender" /\ uploaded_files' = uploaded_files) =>
           (KeysOfBatch' /\ displayed' = displayed) ]_vars

====
